---- MODULE Spec2Model ----
(***************************************************************************)
(* Model of src/main.ts: an oak web application over Deno KV with the      *)
(* routes GET / (list the ten most recent users), POST /api/register       *)
(* (validate, pre-check, atomic check-and-set, issue a JWT) and            *)
(* GET /health.  Every await of a handler is a point where other handlers  *)
(* run, so each handler is cut into one action per stretch between awaits, *)
(* and each KV operation takes effect in an action of its own.  Request    *)
(* bodies are objects whose username and password are strings or missing.  *)
(* The database is available in Spec, SpecList, SpecFair and SpecPair and  *)
(* fails and recovers in SpecEnv.                                          *)
(***************************************************************************)
EXTENDS Integers, Sequences, FiniteSets, TLC

(* ------------------------------ bounds --------------------------------- *)
\* register requests the server receives
NumRequests == 2
\* the clock readings observed are 0 .. MaxTime (ms since the process started)
MaxTime == 1
\* listings (GET /) the server receives
MaxLists == 1
\* users persisted by earlier runs of the process, in SpecList
MaxPre == 11

(* ------------------------- program constants --------------------------- *)
\* password.length < 6
MinPasswordLen == 6
\* .slice(0, 10)
ListLimit == 10
\* Date.now() + 3_600_000
TokenTtlMs == 3600000

(* ------------------------------ values --------------------------------- *)
\* JavaScript values: undefined, null and strings (sequences of characters,
\* a character being a positive number).
Undefined == [type |-> "undefined"]
Null == [type |-> "null"]
Str(s) == [type |-> "string", val |-> s]

\* !x of JavaScript, for undefined and strings
Falsy(x) == x.type = "undefined" \/ (x.type = "string" /\ Len(x.val) = 0)

\* x.length of a string
Length(x) == Len(x.val)

Repeat(n, c) == [i \in 1..n |-> c]

\* the username fields clients send: missing, empty, and two names
UsernameInputs == {Undefined, Str(<<>>), Str(<<1>>), Str(<<2>>)}

\* the password fields clients send: missing, empty, one character too short,
\* and two different passwords of the minimal length
PasswordInputs ==
    {Undefined, Str(<<>>), Str(Repeat(MinPasswordLen - 1, 1)),
     Str(Repeat(MinPasswordLen, 1)), Str(Repeat(MinPasswordLen, 2))}

Requests == 1..NumRequests

VARIABLES
    store,   \* Deno KV under the prefix ["users"]: username key -> User
    now,     \* the clock, in ms since the process started
    reg,     \* per register request: the handler's locals and its response
    lst,     \* the GET / handler's locals and its response, and (history)
             \* the store as it was when the scan started and ended
    hist,    \* history: per request, the KV calls it made, whether its key
             \* was absent when its get and its commit were served, and
             \* whether it was the first to arrive for its username, or the
             \* second and arrived when the first had been answered
    kvUp,    \* the database answers (FALSE: its calls reject)
    health,  \* the response of the last GET /health
    alt      \* SpecPair only: the store and the requests of a server whose
             \* register handler has no pre-check, fed the same requests

vars == <<store, now, reg, lst, hist, kvUp, health, alt>>

(* --------------------------- Deno KV ----------------------------------- *)
RECURSIVE SeqLess(_, _)
\* byte-wise order of two strings
SeqLess(a, b) ==
    IF Len(a) = 0 THEN Len(b) > 0
    ELSE IF Len(b) = 0 THEN FALSE
    ELSE IF a[1] < b[1] THEN TRUE
    ELSE IF a[1] > b[1] THEN FALSE
    ELSE SeqLess(Tail(a), Tail(b))

KvValueMiss(st, key) == Null

\* denoKv.get(key): the entry's value, null when the key was never written
KvValue(st, key) == IF key \in DOMAIN st THEN st[key] ELSE Null

CheckNever(st, key) == TRUE

CheckPresent(st, key) == key \in DOMAIN st

\* .check({ key, versionstamp: null }): the key has never been written
CheckAbsent(st, key) == key \notin DOMAIN st

KvSetOnly(st, key, value) == [k \in {key} |-> value]

\* .set(key, value)
KvSet(st, key, value) == [k \in DOMAIN st \cup {key} |-> IF k = key THEN value ELSE st[k]]

(* -------------------------- bcrypt, djwt ------------------------------- *)
\* hashSync(password): a one-way hash of the plaintext, never the plaintext
\* (the salt bcrypt draws is not observed by any handler and is left out)
hashSync(password) == [type |-> "bcrypt", of |-> password.val]

\* createJwt(username), t1 and t2 being what the two Date.now() calls return
createJwt(username, t1, t2) ==
    [header |-> [alg |-> "HS256", typ |-> "JWT"],
     payload |-> [sub |-> username, iat |-> t1, exp |-> t2 + TokenTtlMs]]

(* ------------------------ persisted users ------------------------------ *)
\* createdAt of the k-th of n users an earlier run persisted, under pattern p:
\* registered in key order, in reverse key order, scrambled, or in pairs
\* within the same millisecond.  All lie before this run's start (time 0).
PreCreatedAt(n, k, p) ==
    CASE p = 1 -> k - n - 1
      [] p = 2 -> 0 - k
      [] p = 3 -> 0 - (((k * 5) % (n + 1)) + 1)
      [] OTHER -> 0 - ((k + 1) \div 2)

PrePatterns == 1..4

\* the store an earlier run left: n users named <<2>>, <<4>>, .. <<2n>>
PreStore(n, p) ==
    [key \in {Str(<<2 * k>>) : k \in 1..n} |->
        [username |-> key,
         password |-> hashSync(Str(Repeat(MinPasswordLen, 1))),
         createdAt |-> PreCreatedAt(n, key.val[1] \div 2, p)]]

PreStores(max) == {PreStore(n, p) : n \in 0..max, p \in PrePatterns}

(* ------------------------------ Init ----------------------------------- *)
IdleReg ==
    [pc |-> "idle", username |-> Undefined, password |-> Undefined,
     existing |-> Null, user |-> Null, commitResult |-> Null,
     status |-> 0, body |-> Null]

IdleLst ==
    [pc |-> "idle", cursor |-> Null, users |-> <<>>, status |-> 0, body |-> Null,
     runs |-> 0, atStart |-> <<>>, atEnd |-> <<>>]

\* the handler without pre-check has no existingUser
IdleAlt ==
    [pc |-> "idle", user |-> Null, commitResult |-> Null, status |-> 0, body |-> Null]

InitWith(stores) ==
    /\ store \in stores
    /\ now = 0
    /\ reg = [r \in Requests |-> IdleReg]
    /\ lst = IdleLst
    /\ hist = [r \in Requests |->
                  [gets |-> 0, commits |-> 0, absentAtGet |-> FALSE,
                   absentAtCommit |-> FALSE, first |-> FALSE, second |-> FALSE]]
    /\ kvUp = TRUE
    /\ health = Null
    /\ alt = [store |-> store, reg |-> [r \in Requests |-> IdleAlt]]

\* a first run: the database is empty
Init == InitWith({PreStore(0, 1)})

\* a later run: the database holds what earlier runs persisted
InitList == InitWith(PreStores(MaxPre))

(* ---------------------- POST /api/register ----------------------------- *)
Done(r) == reg[r].pc = "done"

ThrowUnanswered(r, status, message) ==
    reg' = [reg EXCEPT ![r].status = status, ![r].body = [message |-> message]]

\* ctx.throw(status, message)
Throw(r, status, message) ==
    reg' = [reg EXCEPT ![r].pc = "done", ![r].status = status,
                       ![r].body = [message |-> message]]

\* history: the requests for this username that have arrived, and those of
\* them that have been answered
Started(username) == {q \in Requests : reg[q].pc # "idle" /\ reg[q].username = username}
Answered(username) == {q \in Started(username) : Done(q)}

UserKeyShared(username) == Str(<<1>>)

\* line 64: userKey = ["users", username], written as its part after the prefix
UserKey(username) == username

TooShortOff(password) == Length(password) < MinPasswordLen - 1

\* password.length < 6
TooShort(password) == Length(password) < MinPasswordLen

\* lines 52-65: read the body, validate, send the get
RegisterValidate(r) ==
    /\ reg[r].pc = "idle"
    /\ \E username \in UsernameInputs, password \in PasswordInputs :
         /\ hist' = [hist EXCEPT
                        ![r].first = (Started(username) = {}),
                        ![r].second = (Cardinality(Started(username)) = 1
                                        /\ Answered(username) = Started(username))]
         /\ LET got == [reg EXCEPT ![r].username = username, ![r].password = password]
            IN IF Falsy(username) \/ Falsy(password)
               THEN reg' = [got EXCEPT ![r].pc = "done", ![r].status = 400,
                                       ![r].body = [message |-> "credentials required"]]
               ELSE IF TooShort(password)
               THEN reg' = [got EXCEPT ![r].pc = "done", ![r].status = 400,
                                       ![r].body = [message |-> "password too short"]]
               ELSE reg' = [got EXCEPT ![r].pc = "get"]
    /\ UNCHANGED <<store, now, lst, kvUp, health, alt>>

\* line 65: the store serves denoKv.get(userKey)
KvGet(r) ==
    /\ reg[r].pc = "get"
    /\ kvUp
    /\ reg' = [reg EXCEPT ![r].pc = "got",
                          ![r].existing = KvValue(store, UserKey(reg[r].username))]
    /\ hist' = [hist EXCEPT ![r].gets = @ + 1,
                            ![r].absentAtGet = (reg[r].username \notin DOMAIN store)]
    /\ UNCHANGED <<store, now, lst, kvUp, health, alt>>

UserPlain(username, password, createdAt) ==
    [username |-> username, password |-> password, createdAt |-> createdAt]

\* lines 71-75: const user: User = { username, password: hashSync(password), createdAt }
User(username, password, createdAt) ==
    [username |-> username, password |-> hashSync(password), createdAt |-> createdAt]

\* lines 66-81: answer 409, or build the user and send the atomic check/set
RegisterCheckExisting(r) ==
    /\ reg[r].pc = "got"
    /\ IF reg[r].existing # Null
       THEN /\ Throw(r, 409, "user exists")
            /\ UNCHANGED now
       ELSE \E t \in now..MaxTime :
            /\ now' = t
            /\ reg' = [reg EXCEPT ![r].pc = "commit",
                          ![r].user = User(reg[r].username, reg[r].password, t)]
    /\ UNCHANGED <<store, lst, hist, kvUp, health, alt>>

\* lines 78-81: the store serves atomic().check(..).set(..).commit()
KvCommit(r) ==
    /\ reg[r].pc = "commit"
    /\ kvUp
    /\ IF CheckAbsent(store, UserKey(reg[r].username))
       THEN /\ store' = KvSet(store, UserKey(reg[r].username), reg[r].user)
            /\ reg' = [reg EXCEPT ![r].pc = "committed", ![r].commitResult = [ok |-> TRUE]]
       ELSE /\ store' = store
            /\ reg' = [reg EXCEPT ![r].pc = "committed", ![r].commitResult = [ok |-> FALSE]]
    /\ hist' = [hist EXCEPT ![r].commits = @ + 1,
                            ![r].absentAtCommit = (reg[r].username \notin DOMAIN store)]
    /\ UNCHANGED <<now, lst, kvUp, health, alt>>

\* lines 83-93: answer 500, or create the JWT and answer with it
RegisterFinish(r) ==
    /\ reg[r].pc = "committed"
    /\ IF ~reg[r].commitResult.ok
       THEN /\ Throw(r, 500, "registration failed")
            /\ UNCHANGED now
       ELSE \E t1 \in now..MaxTime, t2 \in now..MaxTime :
            /\ t1 <= t2
            /\ now' = t2
            /\ reg' = [reg EXCEPT ![r].pc = "done", ![r].status = 200,
                          ![r].body = [success |-> TRUE,
                                       token |-> createJwt(reg[r].username, t1, t2),
                                       user |-> [username |-> reg[r].username]]]
    /\ UNCHANGED <<store, lst, hist, kvUp, health, alt>>

Register(r) ==
    \/ RegisterValidate(r)
    \/ KvGet(r)
    \/ RegisterCheckExisting(r)
    \/ KvCommit(r)
    \/ RegisterFinish(r)

(* ------------------------------ GET / ---------------------------------- *)
CompareAscending(a, b) == a.createdAt - b.createdAt

\* (a, b) => b.createdAt.getTime() - a.createdAt.getTime()
Compare(a, b) == b.createdAt - a.createdAt

\* x put into the sorted t behind every element that does not sort after it
Insert(x, t) ==
    LET n == Cardinality({i \in 1..Len(t) : Compare(t[i], x) <= 0})
    IN SubSeq(t, 1, n) \o <<x>> \o SubSeq(t, n + 1, Len(t))

RECURSIVE Sort(_)
\* users.sort(compare): Array.prototype.sort is stable
Sort(s) == IF s = <<>> THEN <<>> ELSE Insert(s[Len(s)], Sort(SubSeq(s, 1, Len(s) - 1)))

SliceOne(s, n) == SubSeq(s, 1, IF Len(s) < 1 THEN Len(s) ELSE 1)

\* s.slice(0, n)
Slice(s, n) == SubSeq(s, 1, IF Len(s) < n THEN Len(s) ELSE n)

\* new Date().toLocaleString() of the clock reading t: a text, to the second
toLocaleString(t) == [type |-> "string", val |-> <<"locale", t \div 1000>>]

\* the keys the iterator of denoKv.list({ prefix: ["users"] }) has not passed
KeysAfter(st, cursor) ==
    {k \in DOMAIN st : cursor = Null \/ SeqLess(cursor.val, k.val)}

\* the first of a non-empty set of keys, in key order
FirstKey(keys) == CHOOSE k \in keys : \A j \in keys : j = k \/ SeqLess(k.val, j.val)

\* lines 37-40: the handler starts and opens the iterator
ListStart ==
    /\ lst.pc \in {"idle", "done"}
    /\ lst.runs < MaxLists
    /\ lst' = [pc |-> "scan", cursor |-> Null, users |-> <<>>, status |-> 0,
               body |-> Null, runs |-> lst.runs + 1, atStart |-> store, atEnd |-> store]
    /\ UNCHANGED <<store, now, reg, hist, kvUp, health, alt>>

ListNextConsuming ==
    /\ lst.pc = "scan"
    /\ kvUp
    /\ KeysAfter(store, lst.cursor) # {}
    /\ LET key == FirstKey(KeysAfter(store, lst.cursor))
       IN /\ lst' = [lst EXCEPT !.cursor = key, !.users = Append(@, store[key])]
          /\ store' = [k \in DOMAIN store \ {key} |-> store[k]]
    /\ UNCHANGED <<now, reg, hist, kvUp, health, alt>>

\* lines 40-42: the iterator yields the next entry, which is pushed
ListNext ==
    /\ lst.pc = "scan"
    /\ kvUp
    /\ KeysAfter(store, lst.cursor) # {}
    /\ LET key == FirstKey(KeysAfter(store, lst.cursor))
       IN lst' = [lst EXCEPT !.cursor = key, !.users = Append(@, store[key])]
    /\ UNCHANGED <<store, now, reg, hist, kvUp, health, alt>>

\* lines 40, 44-49: the iterator is exhausted; sort, slice and render
ListRender ==
    /\ lst.pc = "scan"
    /\ kvUp
    /\ KeysAfter(store, lst.cursor) = {}
    /\ \E t \in now..MaxTime :
         /\ now' = t
         /\ lst' = [lst EXCEPT !.pc = "done", !.atEnd = store, !.status = 200,
                       !.body = [template |-> "views/index.eta",
                                 users |-> Slice(Sort(lst.users), ListLimit),
                                 timestamp |-> toLocaleString(t)]]
    /\ UNCHANGED <<store, reg, hist, kvUp, health, alt>>

List == ListStart \/ ListNext \/ ListRender

\* the iterator rejects: the error is not caught and oak answers 500
ListFail ==
    /\ lst.pc = "scan"
    /\ ~kvUp
    /\ lst' = [lst EXCEPT !.pc = "done", !.atEnd = store, !.status = 500,
                          !.body = [message |-> "Internal Server Error"]]
    /\ UNCHANGED <<store, now, reg, hist, kvUp, health, alt>>

(* --------------------------- GET /health ------------------------------- *)
HealthBodyProbe(t) ==
    [status |-> IF kvUp THEN "healthy" ELSE "unhealthy", timestamp |-> t]

\* lines 96-99: { status: "healthy", timestamp: Date.now() }
HealthBody(t) == [status |-> "healthy", timestamp |-> t]

\* lines 95-100: the handler is synchronous; oak answers 200 with the body.
\* during (history): the database was down, a registration was in flight
Health ==
    /\ \E t \in now..MaxTime :
         /\ now' = t
         /\ health' = [status |-> 200, body |-> HealthBody(t),
                       during |-> [down |-> ~kvUp,
                                   busy |-> \E r \in Requests :
                                              reg[r].pc \notin {"idle", "done"}]]
    /\ UNCHANGED <<store, reg, lst, hist, kvUp, alt>>

(* ----------------------- the database failing -------------------------- *)
\* the database becomes unreachable
KvFail ==
    /\ kvUp
    /\ kvUp' = FALSE
    /\ UNCHANGED <<store, now, reg, lst, hist, health, alt>>

\* the database is reachable again
KvRecover ==
    /\ ~kvUp
    /\ kvUp' = TRUE
    /\ UNCHANGED <<store, now, reg, lst, hist, health, alt>>

\* line 65: denoKv.get rejects; the error is not caught and oak answers 500
KvGetFail(r) ==
    /\ reg[r].pc = "get"
    /\ ~kvUp
    /\ Throw(r, 500, "Internal Server Error")
    /\ hist' = [hist EXCEPT ![r].gets = @ + 1]
    /\ UNCHANGED <<store, now, lst, kvUp, health, alt>>

\* lines 78-81: commit rejects; the error is not caught and oak answers 500
KvCommitFail(r) ==
    /\ reg[r].pc = "commit"
    /\ ~kvUp
    /\ Throw(r, 500, "Internal Server Error")
    /\ hist' = [hist EXCEPT ![r].commits = @ + 1]
    /\ UNCHANGED <<store, now, lst, kvUp, health, alt>>

(* --------------- the register handler without pre-check ---------------- *)
\* A second server, whose handler goes from the validation straight to the
\* atomic write, is fed the same requests.  It follows the first server step
\* by step, with the same clock readings, as long as the first server's
\* request is not turned away by the pre-check; when it is, the second
\* server's handler goes on by itself, at any later time.

\* lines 52-61 and 70-81 for request r, the clock reading t
AltArrive(r, t) ==
    LET username == reg[r].username
        password == reg[r].password
    IN IF Falsy(username) \/ Falsy(password)
       THEN [alt.reg[r] EXCEPT !.pc = "done", !.status = 400,
                               !.body = [message |-> "credentials required"]]
       ELSE IF TooShort(password)
       THEN [alt.reg[r] EXCEPT !.pc = "done", !.status = 400,
                               !.body = [message |-> "password too short"]]
       ELSE [alt.reg[r] EXCEPT !.pc = "commit", !.user = User(username, password, t)]

\* lines 78-81 for request r: the second server's store and handler after it
AltCommit(r) ==
    LET key == UserKey(reg[r].username)
    IN IF CheckAbsent(alt.store, key)
       THEN [store |-> KvSet(alt.store, key, alt.reg[r].user),
             reg |-> [alt.reg EXCEPT ![r].pc = "committed",
                                     ![r].commitResult = [ok |-> TRUE]]]
       ELSE [store |-> alt.store,
             reg |-> [alt.reg EXCEPT ![r].pc = "committed",
                                     ![r].commitResult = [ok |-> FALSE]]]

\* lines 83-93 for request r, the clock readings t1 and t2
AltFinish(r, t1, t2) ==
    IF ~alt.reg[r].commitResult.ok
    THEN [alt.reg[r] EXCEPT !.pc = "done", !.status = 500,
                            !.body = [message |-> "registration failed"]]
    ELSE [alt.reg[r] EXCEPT !.pc = "done", !.status = 200,
                            !.body = [success |-> TRUE,
                                      token |-> createJwt(reg[r].username, t1, t2),
                                      user |-> [username |-> reg[r].username]]]

\* where the second server's handler stands when it has followed the first
Target(r) ==
    CASE reg[r].pc \in {"idle", "get", "got"} -> "idle"
      [] reg[r].pc = "commit" -> "commit"
      [] reg[r].pc = "committed" -> "committed"
      [] OTHER -> "done"

\* the first server turned the request away at the pre-check
TurnedAway(r) == reg[r].status = 409

\* the second server has followed every step of the first
Synced == \A r \in Requests : TurnedAway(r) \/ alt.reg[r].pc = Target(r)

\* the second server takes the step the first has just taken for r
AltFollow(r) ==
    /\ ~TurnedAway(r)
    /\ alt.reg[r].pc # Target(r)
    /\ CASE alt.reg[r].pc = "idle" ->
               alt' = [alt EXCEPT !.reg[r] =
                          AltArrive(r, IF reg[r].user = Null THEN now
                                       ELSE reg[r].user.createdAt)]
         [] alt.reg[r].pc = "commit" -> alt' = AltCommit(r)
         [] OTHER ->
               alt' = [alt EXCEPT !.reg[r] =
                          IF "token" \in DOMAIN reg[r].body
                          THEN AltFinish(r, reg[r].body.token.payload.iat,
                                         reg[r].body.token.payload.exp - TokenTtlMs)
                          ELSE AltFinish(r, now, now)]
    /\ UNCHANGED <<store, now, reg, lst, hist, kvUp, health>>

\* the second server goes on with a request the first has turned away
AltAlone(r) ==
    /\ TurnedAway(r)
    /\ alt.reg[r].pc # "done"
    /\ CASE alt.reg[r].pc = "idle" ->
               \E t \in now..MaxTime :
                   /\ now' = t
                   /\ alt' = [alt EXCEPT !.reg[r] = AltArrive(r, t)]
         [] alt.reg[r].pc = "commit" ->
               /\ alt' = AltCommit(r)
               /\ UNCHANGED now
         [] OTHER ->
               \E t1 \in now..MaxTime, t2 \in now..MaxTime :
                   /\ t1 <= t2
                   /\ now' = t2
                   /\ alt' = [alt EXCEPT !.reg[r] = AltFinish(r, t1, t2)]
    /\ UNCHANGED <<store, reg, lst, hist, kvUp, health>>

(* -------------------------- specifications ----------------------------- *)
\* registrations against a fresh database
Next == \E r \in Requests : Register(r)

Spec == Init /\ [][Next]_vars

\* the same, where the database answers every operation sent to it and the
\* event loop runs every continuation whose promise has settled; nothing
\* obliges a request to arrive
Fairness ==
    \A r \in Requests :
        /\ WF_vars(KvGet(r))
        /\ WF_vars(RegisterCheckExisting(r))
        /\ WF_vars(KvCommit(r))
        /\ WF_vars(RegisterFinish(r))

SpecFair == Init /\ [][Next]_vars /\ Fairness

\* listings, and one registration beside them, against a persisted database
NextList == List \/ Register(1)

SpecList == InitList /\ [][NextList]_vars

\* the server, and beside it the server without pre-check: the first takes
\* a step only when the second has followed its last one
NextPair ==
    \/ Synced /\ \E r \in Requests : Register(r)
    \/ \E r \in Requests : AltFollow(r)
    \/ \E r \in Requests : AltAlone(r)

SpecPair == Init /\ [][NextPair]_vars

\* a run whose database holds none or two persisted users
InitEnv == InitWith({PreStore(0, 1), PreStore(2, 3)})

\* all three routes, one registration, and a database that fails and recovers
NextEnv ==
    \/ Health
    \/ KvFail
    \/ KvRecover
    \/ List
    \/ ListFail
    \/ Register(1)
    \/ KvGetFail(1)
    \/ KvCommitFail(1)

SpecEnv == InitEnv /\ [][NextEnv]_vars

(* ------------------------------ claims --------------------------------- *)
\* the request arrived with a non-empty username and a password of >= 6 characters
Valid(r) ==
    /\ reg[r].pc # "idle"
    /\ reg[r].username.type = "string" /\ Len(reg[r].username.val) > 0
    /\ reg[r].password.type = "string" /\ Len(reg[r].password.val) >= 6

\* the request was answered with the success body and a token
Succeeded(r) ==
    /\ Done(r) /\ reg[r].status = 200
    /\ DOMAIN reg[r].body = {"success", "token", "user"}

\* the valid requests that arrived for a username
Rivals(username) == {q \in Requests : reg[q].username = username /\ Valid(q)}

\* C1: of the valid register requests for one username, however their
\* pre-checks and commits interleave, never more than one succeeds; once all
\* of them are answered exactly one has succeeded, and every other one was
\* answered 409 or 500 with a body that holds no token.
C1_ExactlyOneWinner ==
    \A username \in {reg[r].username : r \in Requests} :
        LET rivals == Rivals(username)
            winners == {q \in rivals : reg[q].status = 200}
        IN /\ Cardinality(winners) <= 1
           /\ (rivals # {} /\ \A q \in rivals : Done(q)) =>
                 /\ Cardinality(winners) = 1
                 /\ \A q \in winners : Succeeded(q)
                 /\ \A q \in rivals \ winners :
                       /\ reg[q].status \in {409, 500}
                       /\ "token" \notin DOMAIN reg[q].body

\* two requests for one username both passed the pre-check before either
\* committed, and both are answered
C1_Witness ==
    \E r, q \in Requests :
        /\ r # q /\ Valid(r) /\ Valid(q) /\ reg[r].username = reg[q].username
        /\ Done(r) /\ Done(q)
        /\ reg[r].existing = Null /\ reg[q].existing = Null
        /\ hist[r].commits = 1 /\ hist[q].commits = 1
        /\ Succeeded(r) /\ reg[q].status = 500

\* C2: when a valid request for a username is the first for it and is answered
\* before a second valid request for the same username arrives, the first is
\* answered with success and the second with 409.
C2_SequentialSecondConflicts ==
    \A r1, r2 \in Requests :
        ( /\ hist[r1].first /\ hist[r2].second
          /\ reg[r1].username = reg[r2].username
          /\ Valid(r1) /\ Valid(r2) )
        => /\ Succeeded(r1)
           /\ Done(r2) => reg[r2].status = 409 /\ reg[r2].body = [message |-> "user exists"]

\* the second of two sequential requests for one username has been answered
C2_Witness ==
    \E r1, r2 \in Requests :
        /\ hist[r1].first /\ hist[r2].second
        /\ reg[r1].username = reg[r2].username
        /\ Valid(r1) /\ Valid(r2)
        /\ Done(r2) /\ reg[r2].status = 409

\* every record is stored under the key of its own username
OneRecordPerUsername == \A key \in DOMAIN store : store[key].username = key

\* a step keeps every record there is, with its contents
RecordsKept == \A key \in DOMAIN store : key \in DOMAIN store' /\ store'[key] = store[key]

\* C3: the store never holds two records for one username (a record sits under
\* the key of its username), and no step changes or removes a record.
C3_OneImmutableRecord == []OneRecordPerUsername /\ [][RecordsKept]_vars

\* a record exists while a later request for the same username went through
\* its commit
C3_Witness ==
    \E r, q \in Requests :
        /\ r # q /\ reg[r].username = reg[q].username
        /\ reg[r].commitResult = [ok |-> TRUE]
        /\ reg[q].commitResult = [ok |-> FALSE]
        /\ store[reg[r].username] = reg[r].user
        /\ reg[q].user # reg[r].user

\* the request found its username taken: at the pre-check, or at the commit
Conflicted(r) == reg[r].existing # Null \/ reg[r].commitResult = [ok |-> FALSE]

\* C4: a request that finds its username taken, at the pre-check or at the
\* failing precondition of the atomic write, is answered 409.
C4_ConflictIs409 ==
    \A r \in Requests : Done(r) /\ Conflicted(r) => reg[r].status = 409

\* the request whose commit created the record of this username
Wrote(q, username) ==
    reg[q].username = username /\ reg[q].commitResult = [ok |-> TRUE]

\* C5: an answered valid request whose username no other request has
\* registered (the database starts empty) has succeeded: it committed once,
\* its record is the stored one, and its body holds a token and the username.
C5_NewUsernameSucceeds ==
    \A r \in Requests :
        (Done(r) /\ Valid(r) /\ \A q \in Requests \ {r} : ~Wrote(q, reg[r].username))
        => /\ Succeeded(r)
           /\ reg[r].body.success = TRUE
           /\ reg[r].body.token # Null
           /\ reg[r].body.token.payload.sub = reg[r].username
           /\ reg[r].body.user = [username |-> reg[r].username]
           /\ hist[r].commits = 1
           /\ reg[r].username \in DOMAIN store
           /\ store[reg[r].username].username = reg[r].username

\* a valid request for a new username has been answered
C5_Witness ==
    \E r \in Requests :
        /\ Succeeded(r) /\ Valid(r)
        /\ \A q \in Requests \ {r} : ~Wrote(q, reg[r].username)

\* C6: a request is answered 400 exactly when its username or password is
\* missing or empty or its password has fewer than 6 characters; it is
\* answered at once, without any get or commit, and with no token.
C6_Validation ==
    \A r \in Requests : reg[r].pc # "idle" =>
        /\ reg[r].status = 400 <=> ~Valid(r)
        /\ reg[r].status = 400 =>
              /\ Done(r)
              /\ hist[r].gets = 0 /\ hist[r].commits = 0
              /\ reg[r].existing = Null /\ reg[r].commitResult = Null
              /\ "token" \notin DOMAIN reg[r].body

\* a password one character too short was rejected, and a password of six
\* characters went on to the store
C6_Witness ==
    \E r, q \in Requests :
        /\ reg[r].status = 400 /\ ~Falsy(reg[r].username)
        /\ reg[r].password.type = "string" /\ Len(reg[r].password.val) = 5
        /\ Valid(q) /\ Len(reg[q].password.val) = 6 /\ hist[q].gets = 1

\* the step is the commit of request r creating the complete record of r
CreatesRecord(r) ==
    LET key == reg[r].username
    IN /\ reg[r].pc = "commit" /\ reg'[r].pc = "committed"
       /\ reg'[r].commitResult = [ok |-> TRUE]
       /\ key \notin DOMAIN store
       /\ DOMAIN store' = DOMAIN store \cup {key}
       /\ \A k \in DOMAIN store : store'[k] = store[k]
       /\ DOMAIN store'[key] = {"username", "password", "createdAt"}
       /\ store'[key].username = key
       /\ store'[key].password = [type |-> "bcrypt", of |-> reg[r].password.val]
       /\ store'[key].createdAt \in 0..now

\* a step leaves the store alone or is one request creating one record
AtomicWrite == store' = store \/ \E r \in Requests : CreatesRecord(r)

\* a request answered 400, 409 or 500 is not one whose commit wrote
FailuresWroteNothing ==
    \A r \in Requests :
        Done(r) /\ reg[r].status # 200 =>
            /\ reg[r].status \in {400, 409, 500}
            /\ reg[r].commitResult # [ok |-> TRUE]

\* C7: the store changes only in the commit step of a request, which adds one
\* complete record {username, password hash, createdAt} under a new key, and
\* such a request is never answered 400, 409 or 500.
C7_NoPartialRecord == []FailuresWroteNothing /\ [][AtomicWrite]_vars

\* one request created a record and was answered 200, another was answered
\* 500, and the store holds that one record
C7_Witness ==
    \E r, q \in Requests :
        /\ Succeeded(r) /\ reg[q].status = 500
        /\ DOMAIN store = {reg[r].username}
        /\ store[reg[r].username] = reg[r].user

\* the smaller of two numbers
Min(a, b) == IF a < b THEN a ELSE b

\* the listing saw no commit between the start of its scan and its end
QuietListing == lst.pc = "done" /\ lst.atEnd = lst.atStart

\* C8: a listing that no registration commits into shows min(10, n) of the n
\* stored users, each once, in descending order of createdAt, and no user
\* left out was created after a user shown; of an empty store it shows none.
C8_TenMostRecent ==
    QuietListing =>
        LET all == lst.atStart
            out == lst.body.users
        IN /\ Len(out) = Min(10, Cardinality(DOMAIN all))
           /\ \A i \in 1..Len(out) :
                 /\ out[i].username \in DOMAIN all
                 /\ out[i].createdAt = all[out[i].username].createdAt
           /\ \A i, j \in 1..Len(out) :
                 /\ i # j => out[i].username # out[j].username
                 /\ i < j => out[i].createdAt >= out[j].createdAt
           /\ \A key \in DOMAIN all :
                 (\A i \in 1..Len(out) : out[i].username # key)
                 => \A i \in 1..Len(out) : all[key].createdAt <= out[i].createdAt

\* a listing of more than ten users, created in an order that is not the key
\* order, has been rendered
C8_Witness ==
    /\ QuietListing
    /\ Cardinality(DOMAIN lst.atStart) > 10
    /\ \E i \in 1..(Len(lst.users) - 1) : lst.users[i].createdAt < lst.users[i + 1].createdAt
    /\ \E i \in 1..(Len(lst.users) - 1) : lst.users[i].createdAt > lst.users[i + 1].createdAt

\* C9: every element of the sequence a listing hands to the renderer holds
\* the username and createdAt of a user and nothing else.
C9_NoHashInListing ==
    lst.pc = "done" =>
        \A i \in 1..Len(lst.body.users) :
            DOMAIN lst.body.users[i] = {"username", "createdAt"}

\* C10: the token of every successful request has the request's username as
\* subject and expires exactly one hour (3 600 000 ms) after it was issued.
C10_TokenOneHour ==
    \A r \in Requests : Succeeded(r) =>
        /\ reg[r].body.token.payload.sub = reg[r].username
        /\ reg[r].body.token.payload.exp = reg[r].body.token.payload.iat + 3600000

\* C11: GET /health can be answered in every state, and every answer is
\* HTTP 200 with status "healthy" and a numeric timestamp, whether or not
\* the database is reachable and whether or not a registration is in flight.
C11_HealthAlways200 ==
    /\ ENABLED Health
    /\ health # Null =>
          /\ health.status = 200
          /\ DOMAIN health.body = {"status", "timestamp"}
          /\ health.body.status = "healthy"
          /\ health.body.timestamp \in Nat

\* a health request was answered while the database was down and a
\* registration was between two of its steps
C11_Witness ==
    /\ health # Null
    /\ health.during.down /\ health.during.busy

\* C12 as stated: every answered registration attempt has issued exactly one
\* conditional write.
C12_ExactlyOneWritePerAttempt ==
    \A r \in Requests : Done(r) => hist[r].commits = 1

\* an attempt issues one conditional write if it is valid and its pre-check
\* found no record, and none otherwise
OneWriteIfNotRejected ==
    \A r \in Requests :
        /\ hist[r].commits <= 1
        /\ Done(r) => (hist[r].commits = 1 <=> (Valid(r) /\ hist[r].absentAtGet))

\* a step that changes the store is the conditional write of one request
OnlyCommitsWrite ==
    store' # store =>
        \E r \in Requests :
            /\ hist'[r].commits = hist[r].commits + 1
            /\ \A q \in Requests \ {r} : hist'[q] = hist[q] /\ reg'[q] = reg[q]

\* C12 (amended): a registration attempt issues at most one conditional
\* write: exactly one when it passes validation and the pre-check, none when
\* it is answered 400 or 409; and the store changes in no other step.
C12_AtMostOneWrite == []OneWriteIfNotRejected /\ [][OnlyCommitsWrite]_vars

\* one attempt wrote once and succeeded, another was answered 409 by the
\* pre-check without writing
C12_Witness ==
    \E r, q \in Requests :
        /\ Succeeded(r) /\ hist[r].commits = 1
        /\ Done(q) /\ reg[q].status = 409 /\ hist[q].commits = 0 /\ hist[q].gets = 1

\* the second server answered the request with the success body and a token
AltSucceeded(r) ==
    /\ alt.reg[r].pc = "done" /\ alt.reg[r].status = 200
    /\ DOMAIN alt.reg[r].body = {"success", "token", "user"}

\* C13: fed the same requests in the same order, the server without
\* pre-check holds the same store as the server with it whenever it has
\* followed, and it grants success to exactly the same requests; a request
\* the pre-check turns away never succeeds without the pre-check either.
C13_PreCheckRedundant ==
    /\ Synced => alt.store = store
    /\ \A r \in Requests :
          /\ AltSucceeded(r) => Succeeded(r) /\ alt.reg[r].body = reg[r].body
          /\ (Synced /\ Succeeded(r)) => AltSucceeded(r)
          /\ (Synced /\ Done(r) /\ ~Succeeded(r)) =>
                (alt.reg[r].pc = "done" => alt.reg[r].status \in {400, 500})
          /\ (TurnedAway(r) /\ alt.reg[r].pc = "done") => alt.reg[r].status = 500

\* a request turned away by the pre-check was answered 500 by the server
\* without pre-check, and both stores hold the record of the other request
C13_Witness ==
    \E r, q \in Requests :
        /\ Synced
        /\ TurnedAway(r) /\ alt.reg[r].pc = "done" /\ alt.reg[r].status = 500
        /\ Succeeded(q) /\ AltSucceeded(q)
        /\ alt.store = store /\ DOMAIN store = {reg[q].username}
        /\ alt.reg[r].user # reg[q].user

\* the usernames a finished listing handed to the renderer
Listed == {lst.body.users[i].username : i \in 1..Len(lst.body.users)}

\* a listing was answered; atStart and atEnd are the store when its scan
\* started and when it ended
Scanned == lst.pc = "done" /\ lst.status = 200

\* C14: every user a listing shows was in the store, with the shown createdAt,
\* when the scan ended; and when the store held at most 10 users at that
\* moment, the listing shows every user the store held when the scan started.
C14_ListingBetweenStartAndEnd ==
    Scanned =>
        /\ \A i \in 1..Len(lst.body.users) :
              /\ lst.body.users[i].username \in DOMAIN lst.atEnd
              /\ lst.body.users[i].createdAt =
                    lst.atEnd[lst.body.users[i].username].createdAt
        /\ Cardinality(DOMAIN lst.atEnd) <= ListLimit => DOMAIN lst.atStart \subseteq Listed

\* a user was committed during the scan of a listing of at most 10 users,
\* behind the iterator, and the listing does not show it
C14_Witness ==
    /\ Scanned
    /\ Cardinality(DOMAIN lst.atEnd) <= ListLimit
    /\ lst.atStart # <<>>
    /\ \E key \in DOMAIN lst.atEnd : key \notin DOMAIN lst.atStart /\ key \notin Listed

\* a user was committed during the scan, ahead of the iterator, and the
\* listing shows it
C14_ShownWitness ==
    /\ Scanned
    /\ \E key \in DOMAIN lst.atEnd : key \notin DOMAIN lst.atStart /\ key \in Listed

\* a step of the GET / handler or of the GET /health handler
ReadOnlyStep == lst' # lst \/ health' # health

\* C15: no step of a listing or of a health request changes the store,
\* whatever a registration has done before it or does after it.
C15_ReadsLeaveStore == [][ReadOnlyStep => store' = store]_vars

\* a listing has read an entry and a health request was answered while a
\* registration stood between its pre-check and its write
C15_Witness ==
    /\ lst.pc = "scan" /\ Len(lst.users) > 0
    /\ health # Null /\ health.during.busy
    /\ reg[1].pc = "commit"
    /\ store = lst.atStart

\* C16: a request whose answer holds a token has sent one conditional write,
\* which found the key absent and committed before the token was made; the
\* record stored under its username is the user object this request built,
\* with the hash of this request's password.
C16_TokenOnlyForOwnRecord ==
    \A r \in Requests :
        (reg[r].body # Null /\ "token" \in DOMAIN reg[r].body) =>
            /\ hist[r].commits = 1 /\ hist[r].absentAtCommit
            /\ reg[r].commitResult = [ok |-> TRUE]
            /\ reg[r].username \in DOMAIN store
            /\ store[reg[r].username] = reg[r].user
            /\ store[reg[r].username].password = hashSync(reg[r].password)

\* two requests for one username with different passwords both sent their
\* write; one holds a token, and the stored hash is not of the other's password
C16_Witness ==
    \E r, q \in Requests :
        /\ reg[r].username = reg[q].username /\ reg[r].password # reg[q].password
        /\ hist[r].commits = 1 /\ hist[q].commits = 1
        /\ Succeeded(r) /\ reg[q].status = 500
        /\ store[reg[r].username].password # hashSync(reg[q].password)

\* the request ran beside no request for the same username
Unrivalled(r) ==
    \A q \in Requests \ {r} : reg[q].pc = "idle" \/ reg[q].username # reg[r].username

\* C17: an answered valid request that ran beside requests for other
\* usernames only has succeeded with a token, whatever the order of the steps;
\* it was answered neither 409 nor 500.
C17_DistinctUsernamesIndependent ==
    \A r \in Requests :
        (Done(r) /\ Valid(r) /\ Unrivalled(r)) =>
            /\ Succeeded(r)
            /\ reg[r].body.token.payload.sub = reg[r].username
            /\ reg[r].status \notin {409, 500}

\* a valid request has succeeded while a request for another username, which
\* built its user at an earlier clock reading, stood between its write and
\* its answer: the two ran at the same time, and both records are stored
C17_Witness ==
    \E r, q \in Requests :
        /\ r # q /\ Valid(r) /\ Valid(q) /\ reg[r].username # reg[q].username
        /\ Succeeded(r) /\ Unrivalled(r)
        /\ reg[q].pc = "committed" /\ reg[q].commitResult = [ok |-> TRUE]
        /\ reg[q].user.createdAt < reg[r].user.createdAt
        /\ DOMAIN store = {reg[r].username, reg[q].username}

\* C18: a request answered 500 found its username absent at the pre-check
\* and present at its write, and another request for the same username has
\* committed the record; a request that runs beside no request for its
\* username is not answered 500.
C18_StoreErrorOnlyOnOverlap ==
    \A r \in Requests :
        /\ reg[r].status = 500 =>
              /\ hist[r].absentAtGet /\ hist[r].commits = 1 /\ ~hist[r].absentAtCommit
              /\ \E q \in Requests \ {r} : Wrote(q, reg[r].username)
        /\ Unrivalled(r) => reg[r].status # 500

\* a request was answered 500 after another request for its username
\* committed between its pre-check and its write
C18_Witness ==
    \E r, q \in Requests :
        /\ r # q /\ Wrote(q, reg[r].username)
        /\ Done(r) /\ reg[r].status = 500
        /\ hist[r].absentAtGet /\ ~hist[r].absentAtCommit

\* the answer of a request is one of the four outcomes, in status and body
OneOutcome(r) ==
    \/ Succeeded(r) /\ reg[r].body.token # Null
    \/ /\ reg[r].status \in {400, 409, 500}
       /\ DOMAIN reg[r].body = {"message"}

\* an answered request has one outcome; a request has sent the pre-check and
\* the write at most once each; and the next step of a request in flight can
\* be taken whatever the other requests have done
AnsweredOnce ==
    \A r \in Requests :
        /\ Done(r) => OneOutcome(r)
        /\ hist[r].gets <= 1 /\ hist[r].commits <= 1
        /\ reg[r].pc \notin {"idle", "done"} => ENABLED Register(r)

\* the answer of a request is never replaced
AnswerFinal == \A r \in Requests : Done(r) => reg'[r] = reg[r]

\* C19: when the database answers and continuations are run, every request
\* that has arrived is eventually answered, with exactly one of 200, 400, 409
\* and 500, which is final; its steps never wait for another request and it
\* sends each database operation at most once.
C19_EveryRequestAnswered ==
    /\ []AnsweredOnce
    /\ [][AnswerFinal]_vars
    /\ \A r \in Requests : (reg[r].pc # "idle") ~> Done(r)

\* every request has been answered: one after its write committed, one after
\* its write failed
C19_Witness ==
    /\ \A r \in Requests : Done(r) /\ OneOutcome(r)
    /\ {reg[r].status : r \in Requests} = {200, 500}

====
